---- MODULE Spec2Model ----
(***************************************************************************)
(* A model of interface_demo.c: the object / interface / vtable mechanism  *)
(* (has_iface, iface_isnull, println), the number type (new_number,        *)
(* destroy_number, number_print, the runtime generated binding) and main.  *)
(*                                                                         *)
(* Three specifications share the state:                                   *)
(*   Spec        a caller that may apply the operations in any order;      *)
(*   MainSpec    the run of main, statement by statement;                  *)
(*   ResolveSpec has_iface applied to objects of arbitrary small classes.  *)
(*                                                                         *)
(* Pointers are records [seg, off]; a use of a pointer the C standard      *)
(* leaves undefined (null or freed dereference, double free, a call        *)
(* through a table of another shape) ends in status "undefined", which     *)
(* stands for every outcome; an out of bounds array read yields an         *)
(* arbitrary value.                                                        *)
(***************************************************************************)
EXTENDS Integers, Sequences, FiniteSets

VARIABLES
    status,       \* "running" | "exited" | "aborted" (assert) | "undefined" (UB)
    heap,         \* malloc's blocks, by address
    num,          \* the caller's object handle (main: num)
    life,         \* ghost: "unconstructed" | "constructed" | "destroyed"
    generated,    \* the caller's runtime generated binding (main: generated)
    my_num_vtable,                \* the caller's own table (main: my_num_vtable)
    my_printable_implementation,  \* the binding assembled around it
    contract,     \* the binding last returned by has_iface (main: contract)
    last,         \* the most recent call: its arguments and what it did
    pc,           \* main's position
    test_class    \* the class descriptor of ResolveSpec's objects

vars == <<status, heap, num, life, generated, my_num_vtable,
          my_printable_implementation, contract, last, pc, test_class>>

(***************************************************************************)
(* Bounds and inputs                                                       *)
(***************************************************************************)
\* number of addresses malloc can hand out
HeapSize == 4
\* longest binding sequence of a class descriptor of ResolveSpec
MaxIfaces == 3
\* values given to new_number: the digits' ends, main's 3, and values
\* whose character is no digit or wraps around a byte
Values == {-1, 0, 3, 9, 10, 208}

(***************************************************************************)
(* Pointers and sizes                                                      *)
(***************************************************************************)
NULL == [seg |-> "null", off |-> 0]
AddrOf(name) == [seg |-> name, off |-> 0]
HeapPtr(a) == [seg |-> "heap", off |-> a]
\* an indeterminate pointer value, equal to the address of no object
Wild == [seg |-> "wild", off |-> 0]
HeapAddrs == 1..HeapSize

\* sizes in bytes of an LP64 build; an impl is two pointers wide on any build
sizeof_void_ptr == 8
sizeof_int == 4
sizeof_impl == 2 * sizeof_void_ptr
sizeof_printable_vtable == sizeof_void_ptr
sizeof_number == sizeof_int

NullImpl == [type |-> NULL, vtable |-> NULL]
NullObject == [type |-> NULL, instance |-> NULL]

(***************************************************************************)
(* Interface descriptors.  printable_iface is the program's; iface_same    *)
(* has the same vtable_size under another address, iface_wide another      *)
(* size.                                                                   *)
(***************************************************************************)
printable_iface == [vtable_size |-> sizeof_printable_vtable]
iface_same == [vtable_size |-> sizeof_printable_vtable]
iface_wide == [vtable_size |-> 2 * sizeof_void_ptr]
Ifaces == {AddrOf("printable_iface"), AddrOf("iface_same"), AddrOf("iface_wide")}

IfaceAt(p) ==
    CASE p = AddrOf("printable_iface") -> printable_iface
      [] p = AddrOf("iface_same") -> iface_same
      [] p = AddrOf("iface_wide") -> iface_wide
      [] OTHER -> [vtable_size |-> 0]

(***************************************************************************)
(* The number type's static data                                           *)
(***************************************************************************)
number_printable_vtable == [toString |-> "number_print"]

number_printable_impl ==
    [type |-> AddrOf("printable_iface"), vtable |-> AddrOf("number_printable_vtable")]

number_interfaces ==
    << [type |-> AddrOf("printable_iface"), vtable |-> AddrOf("number_printable_vtable")] >>

\* sizeof(number_interfaces) / sizeof(void *), stored in an unsigned char
number_interface_count ==
    ((Len(number_interfaces) * sizeof_impl) \div sizeof_void_ptr) % 256

number_class ==
    [instance_size |-> sizeof_number,
     interface_count |-> number_interface_count,
     interfaces |-> number_interfaces]

\* the class descriptor a class pointer points to
ClassAt(p) == IF p = AddrOf("number_class") THEN number_class ELSE test_class

(***************************************************************************)
(* has_iface and iface_isnull                                              *)
(***************************************************************************)
\* The loop of has_iface from index i on.  mem is the memory at
\* self.type->interfaces: the array, then whatever lies behind it.
\* reads: the indices the loop has read.
\* faulty variant: entries matched by equal vtable_size instead of by address
RECURSIVE has_iface_by_size(_, _, _, _)
has_iface_by_size(count, mem, interface, i) ==
    IF ~(i < count) THEN [ret |-> NullImpl, reads |-> 0..(i - 1)]
    ELSE IF IfaceAt(mem[i + 1].type).vtable_size = IfaceAt(interface).vtable_size
         THEN [ret |-> mem[i + 1], reads |-> 0..i]
         ELSE has_iface_by_size(count, mem, interface, i + 1)

\* for(i=0; i < count; ++i) if(interfaces[i].type == interface) return interfaces[i];
RECURSIVE has_iface_loop(_, _, _, _)
has_iface_loop(count, mem, interface, i) ==
    IF ~(i < count) THEN [ret |-> NullImpl, reads |-> 0..(i - 1)]
    ELSE IF mem[i + 1].type = interface
         THEN [ret |-> mem[i + 1], reads |-> 0..i]
         ELSE has_iface_loop(count, mem, interface, i + 1)

has_iface(self, interface, behind) ==
    has_iface_loop(ClassAt(self.type).interface_count,
                   ClassAt(self.type).interfaces \o behind, interface, 0)

iface_isnull(interface) == interface.vtable = NULL

\* What an out of bounds read of an impl may yield.
GarbageImpl ==
    {[type |-> t, vtable |-> v] : t \in Ifaces \cup {NULL, Wild}, v \in {NULL, Wild}}

\* The memory behind a class's binding array, as far as has_iface can reach.
Behind(c) ==
    IF c.interface_count > Len(c.interfaces)
    THEN [1..(c.interface_count - Len(c.interfaces)) -> GarbageImpl]
    ELSE {<<>>}

(***************************************************************************)
(* The heap: malloc and free                                               *)
(***************************************************************************)
Block(s) == [status |-> s, kind |-> "none", representation |-> 0, toString |-> "none"]
NumberBlock(v) ==
    [status |-> "live", kind |-> "number", representation |-> v, toString |-> "none"]
VtableBlock(f) ==
    [status |-> "live", kind |-> "vtable", representation |-> 0, toString |-> f]

\* what malloc may return: a block not in use, or NULL
malloc(h) == {HeapPtr(a) : a \in {b \in HeapAddrs : h[b].status # "live"}} \cup {NULL}

IsLive(h, p) == p.seg = "heap" /\ p.off \in HeapAddrs /\ h[p.off].status = "live"

\* free(p): nothing for NULL, releases a live block, undefined otherwise
free(h, p) ==
    IF p = NULL THEN [defined |-> TRUE, heap |-> h]
    ELSE IF IsLive(h, p)
         THEN [defined |-> TRUE, heap |-> [h EXCEPT ![p.off] = Block("freed")]]
         ELSE [defined |-> FALSE, heap |-> h]

(***************************************************************************)
(* number_print and println                                                *)
(***************************************************************************)
NUL == 0
NEWLINE == 10
DIGIT_ZERO == 48

\* faulty variant: the representation stored without adding '0'
number_print_raw(_self, length, buf, h) ==
    IF _self.type # AddrOf("number_class")
    THEN [status |-> "aborted", buf |-> buf, read |-> FALSE]
    ELSE IF ~(length > 1)
    THEN [status |-> "running", buf |-> buf, read |-> FALSE]
    ELSE IF IsLive(h, _self.instance) /\ h[_self.instance.off].kind = "number"
    THEN [status |-> "running",
          buf |-> [buf EXCEPT ![1] = h[_self.instance.off].representation % 256],
          read |-> TRUE]
    ELSE [status |-> "undefined", buf |-> buf, read |-> TRUE]

\* assert(_self.type == &number_class); if(length > 1) *buf = representation + '0',
\* the sum kept as the byte that reaches the stream
number_print(_self, length, buf, h) ==
    IF _self.type # AddrOf("number_class")
    THEN [status |-> "aborted", buf |-> buf, read |-> FALSE]
    ELSE IF ~(length > 1)
    THEN [status |-> "running", buf |-> buf, read |-> FALSE]
    ELSE IF IsLive(h, _self.instance) /\ h[_self.instance.off].kind = "number"
    THEN [status |-> "running",
          buf |-> [buf EXCEPT
                     ![1] = (h[_self.instance.off].representation + DIGIT_ZERO) % 256],
          read |-> TRUE]
    ELSE [status |-> "undefined", buf |-> buf, read |-> TRUE]

\* The table a vtable pointer points to, read as a printable_vtable:
\* mv is the caller's my_num_vtable.
VtableAt(p, h, mv) ==
    CASE p = AddrOf("number_printable_vtable") ->
            [defined |-> TRUE, toString |-> number_printable_vtable.toString]
      [] p = AddrOf("my_num_vtable") -> [defined |-> TRUE, toString |-> mv.toString]
      [] IsLive(h, p) /\ h[p.off].kind = "vtable" ->
            [defined |-> TRUE, toString |-> h[p.off].toString]
      [] OTHER -> [defined |-> FALSE, toString |-> "wild"]

\* assert(contract.type = &printable_iface): the assignment's value is the
\* address assigned, and the assertion passes when it is not null.
println_assert(contract_) ==
    [contract |-> [contract_ EXCEPT !.type = AddrOf("printable_iface")],
     passes |-> AddrOf("printable_iface") # NULL]

Outcome(st, seen, deref, called, read, wrote) ==
    [status |-> st, seen_type |-> seen, deref |-> deref, called |-> called,
     read |-> read, wrote |-> wrote]

println(self, contract_, h, mv) ==
    LET a == println_assert(contract_)
        v == VtableAt(a.contract.vtable, h, mv)
        buf == <<NUL, NEWLINE>>
        r == number_print(self, 2, buf, h)
    IN  IF ~a.passes
        THEN Outcome("aborted", a.contract.type, FALSE, "none", FALSE, <<>>)
        ELSE IF ~v.defined \/ v.toString # "number_print"
        THEN Outcome("undefined", a.contract.type, TRUE, "none", FALSE, <<>>)
        ELSE IF r.status # "running"
        THEN Outcome(r.status, a.contract.type, TRUE, "number_print", r.read, <<>>)
        ELSE Outcome("running", a.contract.type, TRUE, "number_print", r.read, r.buf)

(***************************************************************************)
(* The record of the most recent call                                      *)
(***************************************************************************)
NoCall ==
    [op |-> "none", value |-> 0, self |-> NullObject, iface |-> NULL,
     contract |-> NullImpl, ret |-> NullImpl, reads |-> {}, seen_type |-> NULL,
     deref |-> FALSE, called |-> "none", read |-> FALSE, wrote |-> <<>>,
     freed |-> NULL]

(***************************************************************************)
(* The operations as actions.  Each leaves pc to its caller.               *)
(***************************************************************************)
new_number(value) ==
    /\ status = "running"
    /\ \E self \in malloc(heap) :
         /\ last' = [NoCall EXCEPT !.op = "new_number", !.value = value,
                                   !.ret = [type |-> NULL, vtable |-> self]]
         /\ IF self = NULL
            THEN /\ status' = "undefined"
                 /\ UNCHANGED <<heap, num, life>>
            ELSE /\ heap' = [heap EXCEPT ![self.off] = NumberBlock(value)]
                 /\ num' = [type |-> AddrOf("number_class"), instance |-> self]
                 /\ life' = "constructed"
                 /\ UNCHANGED status
    /\ UNCHANGED <<generated, my_num_vtable, my_printable_implementation,
                   contract, test_class>>

\* faulty variant: the instance freed but the reference not nulled
destroy_number_keep ==
    /\ status = "running"
    /\ LET f == free(heap, num.instance)
       IN  /\ last' = [NoCall EXCEPT !.op = "destroy_number", !.self = num,
                                     !.freed = num.instance]
           /\ IF f.defined
              THEN /\ heap' = f.heap
                   /\ life' = "destroyed"
                   /\ UNCHANGED <<status, num>>
              ELSE /\ status' = "undefined"
                   /\ UNCHANGED <<heap, num, life>>
    /\ UNCHANGED <<generated, my_num_vtable, my_printable_implementation,
                   contract, test_class>>

\* free(self->instance); self->instance = 0;
destroy_number ==
    /\ status = "running"
    /\ LET f == free(heap, num.instance)
       IN  /\ last' = [NoCall EXCEPT !.op = "destroy_number", !.self = num,
                                     !.freed = num.instance]
           /\ IF f.defined
              THEN /\ heap' = f.heap
                   /\ num' = [num EXCEPT !.instance = NULL]
                   /\ life' = "destroyed"
                   /\ UNCHANGED status
              ELSE /\ status' = "undefined"
                   /\ UNCHANGED <<heap, num, life>>
    /\ UNCHANGED <<generated, my_num_vtable, my_printable_implementation,
                   contract, test_class>>

\* faulty variant: the table allocated but toString never stored
new_runtime_number_print_iface_unset ==
    /\ status = "running"
    /\ \E vtable \in malloc(heap) \ {NULL} :
         /\ last' = [NoCall EXCEPT !.op = "new_runtime_number_print_iface",
                                   !.self = num,
                                   !.ret = [type |-> AddrOf("printable_iface"),
                                            vtable |-> vtable]]
         /\ heap' = [heap EXCEPT ![vtable.off] = VtableBlock("wild")]
         /\ generated' = [type |-> AddrOf("printable_iface"), vtable |-> vtable]
    /\ UNCHANGED <<status, num, life, my_num_vtable, my_printable_implementation,
                   contract, test_class>>

new_runtime_number_print_iface ==
    /\ status = "running"
    /\ \E vtable \in malloc(heap) :
         /\ last' = [NoCall EXCEPT !.op = "new_runtime_number_print_iface",
                                   !.self = num,
                                   !.ret = [type |-> AddrOf("printable_iface"),
                                            vtable |-> vtable]]
         /\ IF num.type # AddrOf("number_class")
            THEN /\ status' = "aborted"
                 /\ UNCHANGED <<heap, generated>>
            ELSE IF vtable = NULL
            THEN /\ status' = "undefined"
                 /\ UNCHANGED <<heap, generated>>
            ELSE /\ heap' = [heap EXCEPT ![vtable.off] = VtableBlock("number_print")]
                 /\ generated' = [type |-> AddrOf("printable_iface"), vtable |-> vtable]
                 /\ UNCHANGED status
    /\ UNCHANGED <<num, life, my_num_vtable, my_printable_implementation,
                   contract, test_class>>

\* faulty variant: the reference nulled but the table not freed
destroy_number_print_iface_leak ==
    /\ status = "running"
    /\ last' = [NoCall EXCEPT !.op = "destroy_number_print_iface",
                              !.contract = generated,
                              !.freed = generated.vtable]
    /\ generated' = [generated EXCEPT !.vtable = NULL]
    /\ UNCHANGED <<status, heap, num, life, my_num_vtable,
                   my_printable_implementation, contract, test_class>>

destroy_number_print_iface ==
    /\ status = "running"
    /\ LET f == free(heap, generated.vtable)
       IN  /\ last' = [NoCall EXCEPT !.op = "destroy_number_print_iface",
                                     !.contract = generated,
                                     !.freed = generated.vtable]
           /\ IF f.defined
              THEN /\ heap' = f.heap
                   /\ generated' = [generated EXCEPT !.vtable = NULL]
                   /\ UNCHANGED status
              ELSE /\ status' = "undefined"
                   /\ UNCHANGED <<heap, generated>>
    /\ UNCHANGED <<num, life, my_num_vtable, my_printable_implementation,
                   contract, test_class>>

\* main's lines 162-168: the caller assembles its own table and binding
assemble_my_printable_implementation ==
    /\ status = "running"
    /\ my_num_vtable' = [toString |-> number_printable_vtable.toString]
    /\ my_printable_implementation' =
           [type |-> AddrOf("printable_iface"), vtable |-> AddrOf("my_num_vtable")]
    /\ last' = [NoCall EXCEPT !.op = "assemble"]
    /\ UNCHANGED <<status, heap, num, life, generated, contract, test_class>>

call_println(self, c) ==
    /\ status = "running"
    /\ LET r == println(self, c, heap, my_num_vtable)
       IN  /\ status' = r.status
           /\ last' = [NoCall EXCEPT !.op = "println", !.self = self, !.contract = c,
                                     !.seen_type = r.seen_type, !.deref = r.deref,
                                     !.called = r.called, !.read = r.read,
                                     !.wrote = r.wrote]
    /\ UNCHANGED <<heap, num, life, generated, my_num_vtable,
                   my_printable_implementation, contract, test_class>>

\* contract = has_iface(self, interface)
call_has_iface(self, interface) ==
    /\ status = "running"
    /\ \E behind \in Behind(ClassAt(self.type)) :
         LET r == has_iface(self, interface, behind)
         IN  /\ contract' = r.ret
             /\ last' = [NoCall EXCEPT !.op = "has_iface", !.self = self,
                                       !.iface = interface, !.ret = r.ret,
                                       !.reads = r.reads]
    /\ UNCHANGED <<status, heap, num, life, generated, my_num_vtable,
                   my_printable_implementation, test_class>>

(***************************************************************************)
(* Init                                                                    *)
(***************************************************************************)
EmptyClass == [instance_size |-> 0, interface_count |-> 0, interfaces |-> <<>>]

Init ==
    /\ status = "running"
    /\ heap = [a \in HeapAddrs |-> Block("unused")]
    /\ num = NullObject
    /\ life = "unconstructed"
    /\ generated = NullImpl
    /\ my_num_vtable = [toString |-> "wild"]
    /\ my_printable_implementation = NullImpl
    /\ contract = NullImpl
    /\ last = NoCall
    /\ pc = "L156"
    /\ test_class = EmptyClass

(***************************************************************************)
(* Spec: a caller applying the operations in any order                     *)
(***************************************************************************)
\* bindings a caller may pass to println beside its own variables: the
\* static one, one labelled with another interface around the right table,
\* one of another interface with a table of that other shape
ForeignBindings ==
    {[type |-> AddrOf("iface_same"), vtable |-> AddrOf("number_printable_vtable")],
     [type |-> AddrOf("iface_wide"), vtable |-> AddrOf("wide_vtable")]}

CallerBindings ==
    {generated, my_printable_implementation, number_printable_impl, contract}
        \cup ForeignBindings

Construct ==
    /\ life # "constructed"
    /\ \E value \in Values : new_number(value)
    /\ UNCHANGED pc

Destroy == life # "unconstructed" /\ destroy_number /\ UNCHANGED pc

Generate ==
    /\ life # "unconstructed"
    /\ generated.vtable = NULL
    /\ new_runtime_number_print_iface
    /\ UNCHANGED pc

Release == generated.type # NULL /\ destroy_number_print_iface /\ UNCHANGED pc

Assemble == assemble_my_printable_implementation /\ UNCHANGED pc

PrintLine ==
    /\ life # "unconstructed"
    /\ \E c \in CallerBindings : call_println(num, c)
    /\ UNCHANGED pc

Resolve ==
    /\ life # "unconstructed"
    /\ \E interface \in Ifaces : call_has_iface(num, interface)
    /\ UNCHANGED pc

Next == Construct \/ Destroy \/ Generate \/ Release \/ Assemble \/ PrintLine \/ Resolve

Spec == Init /\ [][Next]_vars

(***************************************************************************)
(* MainSpec: main, one statement a step                                    *)
(***************************************************************************)
Main156 == pc = "L156" /\ new_number(3) /\ pc' = "L158"
Main158 == pc = "L158" /\ new_runtime_number_print_iface /\ pc' = "L159"
Main159 == pc = "L159" /\ call_println(num, generated) /\ pc' = "L160"
Main160 == pc = "L160" /\ destroy_number_print_iface /\ pc' = "L162"
Main162 == pc = "L162" /\ assemble_my_printable_implementation /\ pc' = "L169"
Main169 == pc = "L169" /\ call_println(num, my_printable_implementation) /\ pc' = "L171"
Main171 == pc = "L171" /\ call_println(num, number_printable_impl) /\ pc' = "L174"
Main174 ==
    /\ pc = "L174"
    /\ call_has_iface(num, AddrOf("printable_iface"))
    /\ pc' = IF iface_isnull(contract') THEN "L177" ELSE "L175"
Main175 == pc = "L175" /\ call_println(num, contract) /\ pc' = "L177"
Main177 == pc = "L177" /\ destroy_number /\ pc' = "L178"
Main178 ==
    /\ pc = "L178"
    /\ status = "running"
    /\ status' = "exited"
    /\ pc' = "done"
    /\ last' = [NoCall EXCEPT !.op = "return"]
    /\ UNCHANGED <<heap, num, life, generated, my_num_vtable,
                   my_printable_implementation, contract, test_class>>

MainNext ==
    Main156 \/ Main158 \/ Main159 \/ Main160 \/ Main162 \/ Main169 \/ Main171
        \/ Main174 \/ Main175 \/ Main177 \/ Main178

MainSpec == Init /\ [][MainNext]_vars

(***************************************************************************)
(* ResolveSpec: has_iface on an object of an arbitrary small class         *)
(***************************************************************************)
TestVtables == {AddrOf("number_printable_vtable"), AddrOf("wide_vtable"), NULL}
TestBindings == {[type |-> t, vtable |-> v] : t \in Ifaces, v \in TestVtables}

RECURSIVE SeqsUpTo(_, _)
SeqsUpTo(S, n) ==
    IF n = 0 THEN {<<>>}
    ELSE LET shorter == SeqsUpTo(S, n - 1)
         IN  shorter \cup {Append(q, x) : q \in shorter, x \in S}

TestClasses ==
    {[instance_size |-> 0, interface_count |-> Len(q) % 256, interfaces |-> q] :
        q \in SeqsUpTo(TestBindings, MaxIfaces)}

test_object == [type |-> AddrOf("test_class"), instance |-> NULL]

ResolveInit ==
    /\ status = "running"
    /\ heap = [a \in HeapAddrs |-> Block("unused")]
    /\ num = NullObject
    /\ life = "unconstructed"
    /\ generated = NullImpl
    /\ my_num_vtable = [toString |-> "wild"]
    /\ my_printable_implementation = NullImpl
    /\ contract = NullImpl
    /\ last = NoCall
    /\ pc = "L156"
    /\ test_class \in TestClasses

ResolveTest ==
    /\ \E interface \in Ifaces : call_has_iface(test_object, interface)
    /\ UNCHANGED pc

ResolveNumber ==
    /\ \E interface \in Ifaces :
         call_has_iface([type |-> AddrOf("number_class"), instance |-> NULL], interface)
    /\ UNCHANGED pc

ResolveNext == ResolveTest \/ ResolveNumber

ResolveSpec == ResolveInit /\ [][ResolveNext]_vars

(***************************************************************************)
(* Properties                                                              *)
(***************************************************************************)
\* A class descriptor is well-formed when its count is the length of its
\* binding array and every entry binds a descriptor to a table.
WellFormed(c) ==
    /\ c.interface_count = Len(c.interfaces)
    /\ \A k \in 1..Len(c.interfaces) :
           c.interfaces[k].type \in Ifaces /\ c.interfaces[k].vtable # NULL

Lists(c, interface) == \E k \in 1..Len(c.interfaces) : c.interfaces[k].type = interface

FirstListed(c, interface) ==
    c.interfaces[CHOOSE k \in 1..Len(c.interfaces) :
                    /\ c.interfaces[k].type = interface
                    /\ \A j \in 1..(k - 1) : c.interfaces[j].type # interface]

\* C1: on an object of a well-formed class, has_iface returns a binding that
\* is not null exactly when the class lists a binding whose type is the
\* queried descriptor itself (the same address; an equal vtable_size does
\* not count), and that binding is then the first such entry and carries
\* the queried descriptor.
C1_ResolutionByIdentity ==
    (last.op = "has_iface" /\ WellFormed(ClassAt(last.self.type))) =>
        /\ (~iface_isnull(last.ret)) <=> Lists(ClassAt(last.self.type), last.iface)
        /\ (~iface_isnull(last.ret)) =>
               /\ last.ret.type = last.iface
               /\ last.ret = FirstListed(ClassAt(last.self.type), last.iface)
        /\ contract = last.ret

\* a query that must step over an entry of equal vtable_size, and has two
\* entries of the queried descriptor to choose from
C1_Witness ==
    /\ last.op = "has_iface"
    /\ last.iface = AddrOf("printable_iface")
    /\ WellFormed(test_class)
    /\ test_class.interfaces =
           << [type |-> AddrOf("iface_same"), vtable |-> AddrOf("wide_vtable")],
              [type |-> AddrOf("printable_iface"),
               vtable |-> AddrOf("number_printable_vtable")],
              [type |-> AddrOf("printable_iface"), vtable |-> AddrOf("wide_vtable")] >>
    /\ last.self = test_object
    /\ last.ret = number_printable_impl

\* C2 (as claimed): has_iface on a number, asked for any descriptor other
\* than printable_iface, returns the null binding.
C2_OtherInterfaceIsNull ==
    (/\ last.op = "has_iface"
     /\ last.self.type = AddrOf("number_class")
     /\ last.iface # AddrOf("printable_iface")) =>
        last.ret = NullImpl /\ iface_isnull(last.ret)

\* C3 (as claimed): println given a binding whose type is not
\* printable_iface aborts, dereferences no table, calls no toString, and
\* checks the type the caller passed.
C3_PrintlnFailsClosed ==
    (last.op = "println" /\ last.contract.type # AddrOf("printable_iface")) =>
        /\ status = "aborted"
        /\ ~last.deref
        /\ last.called = "none"
        /\ last.seen_type = last.contract.type

\* C4 (as claimed): once destroy_number has been applied, println does not
\* reach the instance payload and has_iface returns no usable binding.
C4_RejectedAfterDestroy ==
    /\ (life = "destroyed" /\ last.op = "println") =>
           last.called = "none" /\ ~last.read
    /\ (life = "destroyed" /\ last.op = "has_iface") => iface_isnull(last.ret)

\* C5 (as claimed): destroy_number_print_iface called again on a binding it
\* has already released reports an error.
C5_SecondReleaseReported ==
    (/\ last.op = "destroy_number_print_iface"
     /\ last.contract.type = AddrOf("printable_iface")
     /\ last.contract.vtable = NULL) => status = "aborted"

\* C6: destroy_number leaves the handle's type alone and its instance null;
\* the first call releases exactly the instance's block, a call on a handle
\* whose instance is already null releases nothing and changes nothing
\* else, and the instance stays null until the handle is constructed again.
C6_DoubleDestroyIsNoOp ==
    [][/\ last'.op = "destroy_number" =>
            /\ last'.self = num
            /\ status' = "running"
            /\ num'.type = num.type
            /\ num'.instance = NULL
            /\ IF num.instance = NULL
               THEN /\ heap' = heap
                    /\ num' = num
                    /\ UNCHANGED <<generated, my_num_vtable,
                                   my_printable_implementation, contract>>
               ELSE /\ IsLive(heap, num.instance)
                    /\ heap' = [heap EXCEPT ![num.instance.off] = Block("freed")]
       /\ (life = "destroyed" /\ last'.op # "new_number") => num'.instance = NULL
      ]_vars

\* the state after a second destroy_number on the same handle
C6_Witness ==
    /\ last.op = "destroy_number"
    /\ last.self.type = AddrOf("number_class")
    /\ last.self.instance = NULL
    /\ life = "destroyed"
    /\ num.instance = NULL
    /\ status = "running"
    /\ \E a \in HeapAddrs : heap[a].status = "freed"

\* the bindings through which a caller reaches number_print for num: the
\* static one, the generated one while not released, the caller's own once
\* assembled, and what has_iface returns for printable_iface
ResolvedPrintable ==
    {has_iface(num, AddrOf("printable_iface"), b).ret : b \in Behind(ClassAt(num.type))}

PrintableBindings ==
    {number_printable_impl}
        \cup (IF generated.type # NULL /\ generated.vtable # NULL
              THEN {generated} ELSE {})
        \cup (IF my_printable_implementation.type # NULL
              THEN {my_printable_implementation} ELSE {})
        \cup (IF life = "constructed" THEN ResolvedPrintable ELSE {})

\* C7: for a live number, println writes the same bytes whichever of the
\* static, generated, caller-assembled and resolved bindings it is given.
C7_SameOutputThroughEveryBinding ==
    (life = "constructed" /\ status = "running") =>
        /\ \A b1 \in PrintableBindings, b2 \in PrintableBindings :
               /\ println(num, b1, heap, my_num_vtable).status = "running"
               /\ println(num, b1, heap, my_num_vtable).wrote =
                      println(num, b2, heap, my_num_vtable).wrote
        /\ (last.op = "println" /\ last.contract \in PrintableBindings) =>
               \A b \in PrintableBindings :
                   last.wrote = println(num, b, heap, my_num_vtable).wrote

\* println through the generated binding, with all four kinds at hand
C7_Witness ==
    /\ life = "constructed"
    /\ status = "running"
    /\ last.op = "println"
    /\ last.contract = generated
    /\ generated.vtable.seg = "heap"
    /\ my_printable_implementation.vtable = AddrOf("my_num_vtable")
    /\ contract \in ResolvedPrintable
    /\ Cardinality(PrintableBindings) = 3
    /\ Len(last.wrote) = 2

\* C8: for a number constructed with a value v in 0..9, println through a
\* printable binding writes exactly the two bytes '0' + v and newline;
\* number_print writes buf[0] only.
C8_DigitThenNewline ==
    (/\ life = "constructed"
     /\ status = "running"
     /\ heap[num.instance.off].representation \in 0..9) =>
        LET v == heap[num.instance.off].representation
        IN  /\ (last.op = "println" /\ last.contract \in PrintableBindings) =>
                   /\ last.wrote = <<DIGIT_ZERO + v, NEWLINE>>
                   /\ Len(last.wrote) = 2
            /\ \A x \in {NUL, NEWLINE}, y \in {NUL, NEWLINE} :
                   number_print(num, 2, <<x, y>>, heap).buf = <<DIGIT_ZERO + v, y>>

\* value 0 printed as '0', newline
C8_Witness ==
    /\ life = "constructed"
    /\ status = "running"
    /\ heap[num.instance.off].representation = 0
    /\ last.op = "println"
    /\ last.contract \in ResolvedPrintable
    /\ last.wrote = <<48, 10>>

\* C9 (as claimed): number_class.interface_count is the number of elements
\* of number_interfaces, so has_iface on a number reads inside the array.
C9_CountIsArrayLength ==
    (last.op = "has_iface" /\ last.self.type = AddrOf("number_class")) =>
        /\ number_class.interface_count = Len(number_interfaces)
        /\ last.reads \subseteq 0..(Len(number_interfaces) - 1)

\* C10: in main every block malloc handed out is freed exactly once before
\* main returns (nothing undefined happens but a failed malloc), println
\* never goes through a released table, println and has_iface see num in
\* the constructed state only, and all four println calls are made.
C10_MainReleasesEverything ==
    /\ (status = "undefined") =>
           /\ last.op \in {"new_number", "new_runtime_number_print_iface"}
           /\ last.ret.vtable = NULL
    /\ status # "aborted"
    /\ (pc = "done") =>
           /\ status = "exited"
           /\ \A a \in HeapAddrs : heap[a].status # "live"
           /\ Cardinality({a \in HeapAddrs : heap[a].status = "freed"}) = 2
           /\ num.instance = NULL
           /\ generated.vtable = NULL
    /\ (last.op = "println") =>
           /\ life = "constructed"
           /\ status = "running"
           /\ last.called = "number_print"
           /\ last.contract.vtable.seg = "heap" => IsLive(heap, last.contract.vtable)
           /\ last.wrote = <<51, 10>>
    /\ (last.op = "has_iface") => life = "constructed"
    /\ (pc = "L175") => ~iface_isnull(contract)
    /\ (pc = "L177") => last.op = "println" /\ last.contract = contract

\* main has returned
C10_Witness ==
    /\ pc = "done"
    /\ status = "exited"
    /\ life = "destroyed"
    /\ last.op = "return"

====
